---- MODULE Spec2Model ----
(***************************************************************************)
(* A model of train.py: the training orchestrator train(), the epoch       *)
(* runners train_epoch() and eval_epoch(), and the command-line entry      *)
(* main(), together with the files they read and write (the two log files  *)
(* and the checkpoint files).                                              *)
(*                                                                         *)
(* The two network architectures and the data loaders are opaque: a data   *)
(* set is a sequence of batches, a batch a number of examples, and the     *)
(* loss of an example in a pass is an input of that pass.  Losses are      *)
(* exact rationals <<numerator, denominator>> in lowest terms.  The loss    *)
(* function cust_loss() is modelled on small integer tensors of shape      *)
(* [1, T, D], written as a sequence of T frames of D coordinates.          *)
(***************************************************************************)
EXTENDS Integers, Sequences, FiniteSets, TLC

VARIABLES
    pc,               \* position of the process
    err,              \* the exception that ended the run ("" while none)
    cli,              \* the namespace argparse built from the command line
    opt,              \* the configuration in force (opt of main and train)
    training_data,    \* batch sizes of the training loader
    validation_data,  \* batch sizes of the validation loader
    params,           \* version of the model parameters (gradient updates made)
    ops,              \* operations of the last epoch pass, in order
    losses,           \* the cust_loss values of the last epoch pass, by batch
    model_info,       \* main's model_info: <<the checkpoint loaded>>, or <<>>
    start_i,          \* first epoch of train()
    epoch_i,          \* loop variable of train()
    train_loss,       \* result of the last train_epoch
    valid_loss,       \* result of the last eval_epoch
    train_loss_list,
    valid_loss_list,
    log_files,        \* path -> lines, for every log file that exists
    ckpt_files,       \* path -> checkpoint record, for every checkpoint file
    saving,           \* the torch.save in progress: <<path>> or <<>>
    saved,            \* epochs whose torch.save completed in this run, in order
    pred,             \* cust_loss called on its own: the output tensor
    ans,              \* cust_loss called on its own: the target tensor
    weights,          \* cust_loss called on its own: [alpha, beta]
    loss_out          \* cust_loss called on its own: <<the value returned>>, or <<>>

lossVars == <<pred, ans, weights, loss_out>>

vars == <<pc, err, cli, opt, training_data, validation_data, params, ops,
          losses, model_info, start_i, epoch_i, train_loss, valid_loss, train_loss_list,
          valid_loss_list, log_files, ckpt_files, saving, saved, lossVars>>

(***************************************************************************)
(* Bounds of the model.                                                    *)
(***************************************************************************)
MaxEpoch == 3          \* -epoch of a fresh run is in 0..MaxEpoch
MaxResume == 2         \* a resumed run has at most MaxResume epochs left
MaxInterval == 2       \* -save_interval is in 1..MaxInterval
MaxLoss == 2           \* an example's loss in train() is in 1..MaxLoss
MaxBatches == 2        \* batches of a data set in a direct epoch pass
MaxBatchSize == 2      \* examples of a batch in a direct epoch pass
ResumedParams == 5     \* parameter version stored in the checkpoint resumed from
MaxT == 2              \* frames of a tensor given to cust_loss are 0..MaxT
MaxCoord == 2          \* a coordinate of such a tensor is in 0..MaxCoord

(***************************************************************************)
(* Program constants.                                                      *)
(***************************************************************************)
DefaultEpoch == 300
DefaultInterval == 10
ResumeEpoch == 601

DefaultModel == "transformer"
DefaultSaveModel == "./trained_model/transformer"
DefaultSaveMode == "best"
DefaultLog == "./log/"

Models == {"transformer", "seq2pos", "lstm"}
SaveModes == {"all", "best", "interval", "last"}

(***************************************************************************)
(* Exact arithmetic on losses.                                             *)
(***************************************************************************)
RECURSIVE Gcd(_, _)
Gcd(a, b) == IF b = 0 THEN a ELSE Gcd(b, a % b)

Abs(n) == IF n < 0 THEN -n ELSE n

Rat(n, d) ==
    LET g == Gcd(Abs(n), d)
    IN  <<n \div g, d \div g>>

RatAdd(a, b) == Rat(a[1] * b[2] + b[1] * a[2], a[2] * b[2])

RatMul(a, b) == Rat(a[1] * b[1], a[2] * b[2])

RatLE(a, b) == a[1] * b[2] <= b[1] * a[2]

RECURSIVE RatMax(_)
RatMax(s) ==
    IF Len(s) = 1 THEN s[1]
    ELSE LET m == RatMax(Tail(s))
         IN  IF RatLE(m, s[1]) THEN s[1] ELSE m

RECURSIVE SumSeq(_)
SumSeq(s) == IF s = <<>> THEN 0 ELSE s[1] + SumSeq(Tail(s))

(***************************************************************************)
(* Python's fixed-point formatting '{: W.Pf}': a space for the sign of a   *)
(* non-negative number, P decimals (rounded), padded on the left to W.     *)
(***************************************************************************)
RECURSIVE Pow10(_)
Pow10(p) == IF p = 0 THEN 1 ELSE 10 * Pow10(p - 1)

RECURSIVE PadLeft(_, _, _)
PadLeft(c, s, w) == IF Len(s) >= w THEN s ELSE PadLeft(c, c \o s, w)

FormatF(q, w, p) ==
    LET scaled == (2 * Abs(q[1]) * Pow10(p) + q[2]) \div (2 * q[2])
        body   == ToString(scaled \div Pow10(p)) \o "."
                  \o PadLeft("0", ToString(scaled % Pow10(p)), p)
        sign   == IF q[1] < 0 THEN "-" ELSE " "
    IN  PadLeft(" ", sign \o body, w)

LogTrainFile(o) == o.log \o o.model \o "_train.log"
LogValidFile(o) == o.log \o o.model \o "_valid.log"

HeaderLine == "epoch,loss"
LogLine(e, loss) == ToString(e) \o "," \o FormatF(loss, 8, 5)

\* A file name tagged with the loss alone.
TaggedNameLossOnly(o, e, loss) ==
    o.save_model \o "_tr_loss_" \o FormatF(loss, 3, 3) \o ".chkpt"

TaggedName(o, e, loss) ==
    o.save_model \o "_tr_loss_" \o ToString(e) \o "_" \o FormatF(loss, 3, 3) \o ".chkpt"
BestName(o) == o.save_model \o ".chkpt"

(***************************************************************************)
(* The epoch runners.  table[j][i] is  the value cust_loss returns for     *)
(* example i of batch j in this pass.  A pass yields                       *)
(* [total, ops, err]: the value it returns, the operations it made on the  *)
(* model and the optimizer, and the exception it raised ("" if none).      *)
(***************************************************************************)
RECURSIVE TrainBatchNoZeroGrad(_, _, _, _)
TrainBatchNoZeroGrad(model, batch, i, st) ==
    IF i > Len(batch) THEN st
    ELSE TrainBatchNoZeroGrad(model, batch, i + 1,
            [batch_loss |-> st.batch_loss + batch[i],
             n_motion   |-> st.n_motion + 1,
             ops        |-> st.ops \o <<"forward", "cust_loss", "backward", "step">>,
             err        |-> ""])

RECURSIVE TrainBatch(_, _, _, _)
TrainBatch(model, batch, i, st) ==
    IF i > Len(batch) THEN st
    ELSE IF model = "transformer" THEN
        TrainBatch(model, batch, i + 1,
            [batch_loss |-> st.batch_loss + batch[i],
             n_motion   |-> st.n_motion + 1,
             ops        |-> st.ops \o <<"zero_grad", "forward", "cust_loss", "backward", "step">>,
             err        |-> ""])
    ELSE IF model = "seq2pos" THEN
        TrainBatch(model, batch, i + 1,
            [batch_loss |-> st.batch_loss + batch[i],
             n_motion   |-> st.n_motion + 1,
             ops        |-> st.ops \o <<"zero_grad", "forward", "cust_loss", "backward", "step">>,
             err        |-> ""])
    ELSE \* neither branch binds loss: optim.step() runs, then loss.item() fails
        [st EXCEPT !.ops = st.ops \o <<"zero_grad", "step">>,
                   !.err = "UnboundLocalError"]

RECURSIVE TrainBatches(_, _, _, _)
TrainBatches(model, table, j, st) ==
    IF j > Len(table) THEN st
    ELSE LET b == TrainBatch(model, table[j], 1,
                      [batch_loss |-> 0, n_motion |-> 0, ops |-> st.ops, err |-> ""])
         IN  IF b.err # "" THEN
                 [st EXCEPT !.ops = b.ops, !.err = b.err]
             ELSE IF b.n_motion = 0 THEN
                 [st EXCEPT !.ops = b.ops, !.err = "ZeroDivisionError"]
             ELSE TrainBatches(model, table, j + 1,
                      [total |-> RatAdd(st.total, Rat(b.batch_loss, b.n_motion)),
                       ops   |-> b.ops,
                       err   |-> ""])

train_epoch(model, table) ==
    TrainBatches(model, table, 1,
        [total |-> <<0, 1>>, ops |-> <<"model.train">>, err |-> ""])

RECURSIVE EvalBatchWithStep(_, _, _, _)
EvalBatchWithStep(model, batch, i, st) ==
    IF i > Len(batch) THEN st
    ELSE EvalBatchWithStep(model, batch, i + 1,
            [batch_loss |-> st.batch_loss + batch[i],
             n_motion   |-> st.n_motion + 1,
             ops        |-> st.ops \o <<"forward", "cust_loss", "backward", "step">>])

RECURSIVE EvalBatch(_, _, _, _)
EvalBatch(model, batch, i, st) ==
    IF i > Len(batch) THEN st
    ELSE IF model = "transformer" THEN
        EvalBatch(model, batch, i + 1,
            [batch_loss |-> st.batch_loss + batch[i],
             n_motion   |-> st.n_motion + 1,
             ops        |-> st.ops \o <<"forward", "cust_loss">>])
    ELSE IF model = "seq2pos" THEN
        EvalBatch(model, batch, i + 1,
            [batch_loss |-> st.batch_loss + batch[i],
             n_motion   |-> st.n_motion + 1,
             ops        |-> st.ops \o <<"forward", "cust_loss">>])
    ELSE \* no branch taken: the example is passed over
        EvalBatch(model, batch, i + 1, st)

RECURSIVE EvalBatches(_, _, _, _)
EvalBatches(model, table, j, st) ==
    IF j > Len(table) THEN st
    ELSE LET b == EvalBatch(model, table[j], 1,
                      [batch_loss |-> 0, n_motion |-> 0, ops |-> st.ops])
         IN  IF b.n_motion = 0 THEN
                 [st EXCEPT !.ops = b.ops, !.err = "ZeroDivisionError"]
             ELSE EvalBatches(model, table, j + 1,
                      [total |-> RatAdd(st.total, Rat(b.batch_loss, b.n_motion)),
                       ops   |-> b.ops,
                       err   |-> ""])

eval_epoch(model, table) ==
    EvalBatches(model, table, 1,
        [total |-> <<0, 1>>, ops |-> <<"model.eval">>, err |-> ""])

\* Gradient updates among the operations of a pass: optimizer steps that
\* follow a backward pass.
RECURSIVE Count(_, _)
Count(s, x) == IF s = <<>> THEN 0
               ELSE (IF s[1] = x THEN 1 ELSE 0) + Count(Tail(s), x)

\* The loss tables of a data set: one value of Vals per example.
RECURSIVE LossTables(_, _)
LossTables(data, Vals) ==
    IF data = <<>> THEN {<<>>}
    ELSE {<<b>> \o rest : b \in [1..data[1] -> Vals],
                          rest \in LossTables(Tail(data), Vals)}

(***************************************************************************)
(* Files.                                                                  *)
(***************************************************************************)
Put(f, k, v) == [x \in DOMAIN f \cup {k} |-> IF x = k THEN v ELSE f[x]]

NoFiles == [x \in {} |-> <<>>]

ChkptPath == "./trained_model/transformer.chkpt"

\* What an earlier run left in a log file: the header and its last line.
OldLog(e) == <<HeaderLine, LogLine(e, <<3, 1>>)>>

KnownModel(m) == m \in {"transformer", "seq2pos"}

(***************************************************************************)
(* main(): the configuration, the model and the first epoch of the run.    *)
(***************************************************************************)
\* A resume that starts again at the epoch of the checkpoint.
ResumeStartSameEpoch(info) == info.epoch

ResumeStart(info) == info.epoch + 1

\* A resume that keeps the epoch count of the checkpoint.
ResumeOptKeepEpoch(info) == info.settings

ResumeOpt(info) == [info.settings EXCEPT !.epoch = ResumeEpoch]

ResumeParams(info) == info.model

(***************************************************************************)
(* train(): the log files at the start of the run.                         *)
(***************************************************************************)
LogInit(files, o) ==
    IF o.log # "" THEN
        IF ~(LogTrainFile(o) \in DOMAIN files /\ LogValidFile(o) \in DOMAIN files)
        THEN Put(Put(files, LogTrainFile(o), <<HeaderLine>>),
                 LogValidFile(o), <<HeaderLine>>)
        ELSE files
    ELSE files

\* open(path, 'a'): the file is created when it is missing.
AppendLine(files, path, line) ==
    Put(files, path, (IF path \in DOMAIN files THEN files[path] ELSE <<>>) \o <<line>>)

LogAppend(files, o, e, tl, vl) ==
    IF o.log # "" THEN
        AppendLine(AppendLine(files, LogTrainFile(o), LogLine(e, tl)),
                   LogValidFile(o), LogLine(e, vl))
    ELSE files

\* The files after a failed attempt to open the two logs in mode m ('w' or 'a'):
\* the first open fails and nothing changes, or the training log is opened
\* (emptied by 'w', created by 'a') and the open of the validation log fails.
OpenFailure(files, o, m, which) ==
    IF which = 1 THEN files
    ELSE IF m = "w" \/ LogTrainFile(o) \notin DOMAIN files
         THEN Put(files, LogTrainFile(o), <<>>)
         ELSE files

\* A loop that runs epoch opt.epoch too.
LoopPcInclusive(e, o) == IF e <= o.epoch THEN "train_epoch" ELSE "done"

\* range(start_i, opt.epoch)
LoopPc(e, o) == IF e < o.epoch THEN "train_epoch" ELSE "done"

(***************************************************************************)
(* train(): the checkpoint decision of an epoch: the file to write, as     *)
(* <<name>>, or <<>> for none.                                             *)
(***************************************************************************)
\* A strict comparison with the largest loss recorded.
BestSaveStrict(tl, list) == ~RatLE(RatMax(list), tl)

BestSave(tl, list) == RatLE(tl, RatMax(list))

\* An interval rule that does not pass over epoch 0.
IntervalSaveWithEpochZero(e, n) == (e % n) = 0

IntervalSave(e, n) == (e % n) = 0 /\ e # 0

\* A save policy that treats every other mode as 'all'.
SaveTargetDefaultAll(o, e, tl, list) ==
    IF o.save_model # "" THEN
        IF o.save_mode = "best" THEN
            IF BestSave(tl, list) THEN <<BestName(o)>> ELSE <<>>
        ELSE IF o.save_mode = "interval" THEN
            IF IntervalSave(e, o.save_interval) THEN <<TaggedName(o, e, tl)>> ELSE <<>>
        ELSE <<TaggedName(o, e, tl)>>
    ELSE <<>>

SaveTarget(o, e, tl, list) ==
    IF o.save_model # "" THEN
        IF o.save_mode = "all" THEN <<TaggedName(o, e, tl)>>
        ELSE IF o.save_mode = "best" THEN
            IF BestSave(tl, list) THEN <<BestName(o)>> ELSE <<>>
        ELSE IF o.save_mode = "interval" THEN
            IF IntervalSave(e, o.save_interval) THEN <<TaggedName(o, e, tl)>> ELSE <<>>
        ELSE <<>>
    ELSE <<>>

\* A checkpoint stamped with the epoch to come.
CheckpointOfNextEpoch(p, o, e) ==
    [model |-> p, settings |-> o, epoch |-> e + 1, complete |-> TRUE]

CheckpointOf(p, o, e) == [model |-> p, settings |-> o, epoch |-> e, complete |-> TRUE]

\* torch.save(obj, path) opens path for writing, which empties it, and then
\* writes the record: until the write ends the file holds a part of it.
PartialWrite(files, path, c) == Put(files, path, [c EXCEPT !.complete = FALSE])

(***************************************************************************)
(* cust_loss(), on tensors of shape [1, T, D].  A value of the loss is the *)
(* real number q + c * (sqrt(rad[1]) + ... + sqrt(rad[D])), kept exactly   *)
(* as the record [q, c, rad]: torch.norm takes a square root.              *)
(***************************************************************************)
DefaultAlpha == <<1, 10>>
DefaultBeta == <<1, 1>>
DefaultWeights == [alpha |-> DefaultAlpha, beta |-> DefaultBeta]

\* output.numel()
Numel(output) == IF output = <<>> THEN 0 ELSE Len(output) * Len(output[1])

\* F.mse_loss(output, target): the mean of the squared differences.
mse_loss(output, target) ==
    Rat(SumSeq([n \in 1..Len(output) |->
                  SumSeq([d \in 1..Len(output[n]) |->
                            (output[n][d] - target[n][d]) * (output[n][d] - target[n][d])])]),
        Numel(output))

\* [abs(output[:, n, :] - output[:, n-1, :]) for n in range(1, output.shape[1])]
diff(output) ==
    [n \in 1..(Len(output) - 1) |->
        [d \in 1..Len(output[n]) |-> Abs(output[n + 1][d] - output[n][d])]]

\* torch.sum(torch.stack(diff)) / n_element, then cont_loss /= 100
cont_loss(output) ==
    Rat(SumSeq([n \in 1..Len(diff(output)) |-> SumSeq(diff(output)[n])]),
        Numel(output) * 100)

\* torch.norm(output, 2, 1): the 2-norm along dimension 1, the frames; one
\* norm per coordinate d, given here by its square.
norm(output) ==
    [d \in 1..Len(output[1]) |->
        SumSeq([n \in 1..Len(output) |-> output[n][d] * output[n][d]])]

\* -torch.sum(norm) / n_element, then var_loss /= 1
var_loss(output) == [c |-> Rat(-1, Numel(output)), rad |-> norm(output)]

\* mse_loss + alpha * cont_loss + beta * var_loss
LossValueNoContinuity(mse, alpha, cont, beta, var) ==
    LET c == RatMul(beta, var.c)
    IN  [q |-> mse, c |-> c, rad |-> IF c[1] = 0 THEN <<>> ELSE var.rad]

LossValue(mse, alpha, cont, beta, var) ==
    LET c == RatMul(beta, var.c)
    IN  [q |-> RatAdd(mse, RatMul(alpha, cont)),
         c |-> c,
         rad |-> IF c[1] = 0 THEN <<>> ELSE var.rad]

\* With fewer than two frames diff is empty, torch.stack raises RuntimeError,
\* the except clause prints 'TEST', and cont_loss /= 100 finds cont_loss
\* unbound.  (mse_loss is computed before that: nan for zero frames.)
cust_loss(output, target, alpha, beta) ==
    IF diff(output) = <<>>
    THEN [err |-> "UnboundLocalError", loss |-> <<>>]
    ELSE [err |-> "",
          loss |-> <<LossValue(mse_loss(output, target), alpha, cont_loss(output),
                               beta, var_loss(output))>>]

(***************************************************************************)
(* Initial states: a command line, the files it finds, the data.           *)
(***************************************************************************)
\* The data sets of a run of train(): at most one batch of at most one example.
RunShapes == {<<>>, <<0>>, <<1>>}

\* The data sets of a direct epoch pass.
PassShapes == UNION {[1..n -> 0..MaxBatchSize] : n \in 0..MaxBatches}
PassLossVals == {1, MaxLoss, 2 * MaxLoss}

\* The loss of a validation example in a run of train().
RunValidLossVals == {MaxLoss}

\* The configurations of a run: -save_interval is given with -save_mode
\* interval, and keeps its default otherwise.
Options(epochs, chkpts) ==
    {o \in [model : Models, save_model : {"", DefaultSaveModel}, save_mode : SaveModes,
            save_interval : (1..MaxInterval) \cup {DefaultInterval},
            log : {"", DefaultLog}, epoch : epochs, chkpt : chkpts] :
        o.save_mode # "interval" => o.save_interval = DefaultInterval}

DefaultOptions ==
    [model |-> DefaultModel, save_model |-> DefaultSaveModel,
     save_mode |-> DefaultSaveMode, save_interval |-> DefaultInterval,
     log |-> DefaultLog, epoch |-> DefaultEpoch, chkpt |-> ""]

\* The log files a run with configuration o may find: each of the two is
\* missing or left by an earlier run whose last epoch was e.
LogStates(o, e) ==
    IF o.log = "" THEN {NoFiles}
    ELSE {[x \in D |-> OldLog(e)] : D \in SUBSET {LogTrainFile(o), LogValidFile(o)}}

InitRest ==
    /\ err = ""
    /\ opt = cli
    /\ params = 0
    /\ ops = <<>>
    /\ losses = <<>>
    /\ model_info = <<>>
    /\ start_i = 0
    /\ epoch_i = 0
    /\ train_loss = <<0, 1>>
    /\ valid_loss = <<0, 1>>
    /\ train_loss_list = <<>>
    /\ valid_loss_list = <<>>
    /\ saving = <<>>
    /\ saved = <<>>

\* No call of cust_loss on its own.
InitNoLoss ==
    /\ pred = <<>>
    /\ ans = <<>>
    /\ weights = DefaultWeights
    /\ loss_out = <<>>

InitRun ==
    /\ pc = "start"
    /\ InitNoLoss
    /\ training_data \in RunShapes
    /\ validation_data \in RunShapes
    /\ InitRest

InitFresh ==
    /\ cli \in Options(0..MaxEpoch, {""})
    /\ ckpt_files = NoFiles
    /\ log_files \in LogStates(cli, 0)
    /\ InitRun

\* -epoch of the run that wrote the checkpoint resumed from: the default, or
\* a count above the bound main sets on resume.
StoredEpochs == {DefaultEpoch, ResumeEpoch + DefaultEpoch}

InitResume ==
    /\ cli = [DefaultOptions EXCEPT !.chkpt = ChkptPath]
    /\ \E s \in Options(StoredEpochs, {""}) :
       \E k \in (ResumeEpoch - 1 - MaxResume)..(ResumeEpoch - 1) :
          /\ ckpt_files = Put(NoFiles, ChkptPath, CheckpointOf(ResumedParams, s, k))
          /\ log_files \in LogStates(s, k)
    /\ InitRun

Init == InitFresh \/ InitResume

(***************************************************************************)
(* Actions.                                                                *)
(***************************************************************************)
Fail(e) ==
    /\ pc' = "error"
    /\ err' = e

\* main(), lines 218-318, to the call of train().
Main ==
    /\ pc = "start"
    /\ LET resumed == cli.chkpt # ""
           info    == ckpt_files[cli.chkpt]
           o       == IF resumed THEN ResumeOpt(info) ELSE cli
       IN  /\ model_info' = IF resumed THEN <<info>> ELSE <<>>
           /\ opt' = o
           /\ IF KnownModel(o.model)
              THEN /\ params' = IF resumed THEN ResumeParams(info) ELSE 0
                   /\ start_i' = IF resumed THEN ResumeStart(info) ELSE 0
                   /\ pc' = "train"
                   /\ err' = ""
              ELSE \* model is never bound: model.load_state_dict / model.parameters
                   /\ Fail("UnboundLocalError")
                   /\ UNCHANGED <<params, start_i>>
    /\ UNCHANGED <<lossVars, cli, training_data, validation_data, ops, losses, epoch_i,
                   train_loss, valid_loss, train_loss_list, valid_loss_list, log_files,
                   ckpt_files, saving, saved>>

\* train() called by another module with a model object of its own and the
\* default start_i.
CallTrain ==
    /\ pc = "start"
    /\ cli.chkpt = ""
    /\ opt' = cli
    /\ params' = 0
    /\ start_i' = 0
    /\ pc' = "train"
    /\ UNCHANGED <<lossVars, err, cli, training_data, validation_data, ops, losses, model_info,
                   epoch_i, train_loss, valid_loss, train_loss_list, valid_loss_list, log_files,
                   ckpt_files, saving, saved>>

\* train(), lines 48-64.
TrainBegin ==
    /\ pc = "train"
    /\ log_files' = LogInit(log_files, opt)
    /\ train_loss_list' = <<>>
    /\ valid_loss_list' = <<>>
    /\ epoch_i' = start_i
    /\ pc' = LoopPc(start_i, opt)
    /\ UNCHANGED <<lossVars, err, cli, opt, training_data, validation_data, params, ops,
                   losses, model_info, start_i,
                   train_loss, valid_loss, ckpt_files, saving, saved>>

\* train(), lines 57-58: open() of a log file raises (the directory is missing
\* or not writable) and nothing in train() catches it.
TrainBeginFail ==
    /\ pc = "train"
    /\ opt.log # ""
    /\ ~(LogTrainFile(opt) \in DOMAIN log_files /\ LogValidFile(opt) \in DOMAIN log_files)
    /\ \E which \in {1, 2} : log_files' = OpenFailure(log_files, opt, "w", which)
    /\ Fail("PermissionError")
    /\ UNCHANGED <<lossVars, cli, opt, training_data, validation_data, params, ops,
                   losses, model_info, start_i, epoch_i, train_loss, valid_loss,
                   train_loss_list, valid_loss_list, ckpt_files, saving, saved>>

\* train(), lines 68-71.
TrainEpoch ==
    /\ pc = "train_epoch"
    /\ \E ls \in LossTables(training_data, 1..MaxLoss) :
         LET r == train_epoch(opt.model, ls)
         IN  /\ ops' = r.ops
             /\ losses' = ls
             /\ params' = params + Count(r.ops, "backward")
             /\ IF r.err # ""
                THEN /\ Fail(r.err)
                     /\ UNCHANGED <<train_loss, train_loss_list>>
                ELSE /\ train_loss' = r.total
                     /\ train_loss_list' = train_loss_list \o <<r.total>>
                     /\ pc' = "eval_epoch"
                     /\ err' = ""
    /\ UNCHANGED <<lossVars, cli, opt, training_data, validation_data, model_info, start_i,
                   epoch_i, valid_loss, valid_loss_list, log_files, ckpt_files, saving, saved>>

\* train(), lines 74-77.
EvalEpoch ==
    /\ pc = "eval_epoch"
    /\ \E ls \in LossTables(validation_data, RunValidLossVals) :
         LET r == eval_epoch(opt.model, ls)
         IN  /\ ops' = r.ops
             /\ losses' = ls
             /\ params' = params + Count(r.ops, "backward")
             /\ IF r.err # ""
                THEN /\ Fail(r.err)
                     /\ UNCHANGED <<valid_loss, valid_loss_list>>
                ELSE /\ valid_loss' = r.total
                     /\ valid_loss_list' = valid_loss_list \o <<r.total>>
                     /\ pc' = "checkpoint"
                     /\ err' = ""
    /\ UNCHANGED <<lossVars, cli, opt, training_data, validation_data, model_info,
                   start_i, epoch_i, train_loss, train_loss_list, log_files, ckpt_files, saving, saved>>

\* train(), lines 80-104, to the start of torch.save.
Checkpoint ==
    /\ pc = "checkpoint"
    /\ LET target == SaveTarget(opt, epoch_i, train_loss, train_loss_list)
       IN  IF target = <<>>
           THEN /\ pc' = "log"
                /\ UNCHANGED <<ckpt_files, saving>>
           ELSE /\ ckpt_files' = PartialWrite(ckpt_files, target[1],
                                     CheckpointOf(params, opt, epoch_i))
                /\ saving' = target
                /\ pc' = "saving"
    /\ UNCHANGED <<lossVars, err, cli, opt, training_data, validation_data, params, ops,
                   losses, model_info, start_i,
                   epoch_i, train_loss, valid_loss, train_loss_list, valid_loss_list,
                   log_files, saved>>

\* torch.save writes the rest of the record and returns.
SaveDone ==
    /\ pc = "saving"
    /\ ckpt_files' = Put(ckpt_files, saving[1], CheckpointOf(params, opt, epoch_i))
    /\ saved' = saved \o <<epoch_i>>
    /\ saving' = <<>>
    /\ pc' = "log"
    /\ UNCHANGED <<lossVars, err, cli, opt, training_data, validation_data, params, ops,
                   losses, model_info, start_i,
                   epoch_i, train_loss, valid_loss, train_loss_list, valid_loss_list,
                   log_files>>

\* The write fails (a full disk): torch.save raises, nothing in train() catches it.
SaveFail ==
    /\ pc = "saving"
    /\ Fail("OSError")
    /\ UNCHANGED <<lossVars, cli, opt, training_data, validation_data, params, ops,
                   losses, model_info, start_i,
                   epoch_i, train_loss, valid_loss, train_loss_list, valid_loss_list,
                   log_files, ckpt_files, saving, saved>>

\* The process is stopped during the write.
Kill ==
    /\ pc = "saving"
    /\ pc' = "killed"
    /\ UNCHANGED <<lossVars, err, cli, opt, training_data, validation_data, params, ops,
                   losses, model_info, start_i,
                   epoch_i, train_loss, valid_loss, train_loss_list, valid_loss_list,
                   log_files, ckpt_files, saving, saved>>

\* train(), lines 106-111, and the step of the loop.
Log ==
    /\ pc = "log"
    /\ log_files' = LogAppend(log_files, opt, epoch_i, train_loss, valid_loss)
    /\ epoch_i' = epoch_i + 1
    /\ pc' = LoopPc(epoch_i + 1, opt)
    /\ UNCHANGED <<lossVars, err, cli, opt, training_data, validation_data, params, ops,
                   losses, model_info, start_i,
                   train_loss, valid_loss, train_loss_list, valid_loss_list,
                   ckpt_files, saving, saved>>

\* train(), line 107: open() of a log file raises.
LogFail ==
    /\ pc = "log"
    /\ opt.log # ""
    /\ \E which \in {1, 2} : log_files' = OpenFailure(log_files, opt, "a", which)
    /\ Fail("PermissionError")
    /\ UNCHANGED <<lossVars, cli, opt, training_data, validation_data, params, ops,
                   losses, model_info, start_i, epoch_i, train_loss, valid_loss,
                   train_loss_list, valid_loss_list, ckpt_files, saving, saved>>

Next ==
    \/ Main
    \/ CallTrain
    \/ TrainBegin
    \/ TrainBeginFail
    \/ TrainEpoch
    \/ EvalEpoch
    \/ Checkpoint
    \/ SaveDone
    \/ SaveFail
    \/ Kill
    \/ Log
    \/ LogFail

Spec == Init /\ [][Next]_vars

(***************************************************************************)
(* The epoch runners called on their own: one pass over a data set.        *)
(***************************************************************************)
InitPass ==
    /\ pc = "pass"
    /\ \E m \in Models : cli = [DefaultOptions EXCEPT !.model = m]
    /\ training_data \in PassShapes
    /\ validation_data = training_data      \* a pass reads the one loader it is given
    /\ ckpt_files = NoFiles
    /\ log_files = NoFiles
    /\ InitNoLoss
    /\ InitRest

PassTrain ==
    /\ pc = "pass"
    /\ \E ls \in LossTables(training_data, PassLossVals) :
         LET r == train_epoch(opt.model, ls)
         IN  /\ ops' = r.ops
             /\ losses' = ls
             /\ params' = params + Count(r.ops, "backward")
             /\ IF r.err # ""
                THEN /\ Fail(r.err)
                     /\ UNCHANGED train_loss
                ELSE /\ train_loss' = r.total
                     /\ pc' = "returned"
                     /\ err' = ""
    /\ UNCHANGED <<lossVars, cli, opt, training_data, validation_data, model_info, start_i,
                   epoch_i, valid_loss, train_loss_list, valid_loss_list, log_files,
                   ckpt_files, saving, saved>>

PassEval ==
    /\ pc = "pass"
    /\ \E ls \in LossTables(validation_data, PassLossVals) :
         LET r == eval_epoch(opt.model, ls)
         IN  /\ ops' = r.ops
             /\ losses' = ls
             /\ params' = params + Count(r.ops, "backward")
             /\ IF r.err # ""
                THEN /\ Fail(r.err)
                     /\ UNCHANGED valid_loss
                ELSE /\ valid_loss' = r.total
                     /\ pc' = "returned"
                     /\ err' = ""
    /\ UNCHANGED <<lossVars, cli, opt, training_data, validation_data, model_info,
                   start_i, epoch_i, train_loss, train_loss_list, valid_loss_list,
                   log_files, ckpt_files, saving, saved>>

NextPass ==
    \/ PassTrain
    \/ PassEval

SpecEpoch == InitPass /\ [][NextPass]_vars

(***************************************************************************)
(* cust_loss called on its own, on one pair of tensors.                    *)
(***************************************************************************)
FeatureDims == {1, 2}

Tensors == UNION {[1..t -> [1..d -> 0..MaxCoord]] : t \in 0..MaxT, d \in FeatureDims}

\* The tensor of the shape of x with every coordinate 0.
Zeros(x) == [n \in 1..Len(x) |-> [d \in 1..Len(x[n]) |-> 0]]

Alphas == {<<0, 1>>, DefaultAlpha, <<1, 1>>}
Betas == {<<0, 1>>, DefaultBeta}

InitLoss ==
    /\ pc = "cust_loss"
    /\ cli = DefaultOptions
    /\ training_data = <<>>
    /\ validation_data = <<>>
    /\ ckpt_files = NoFiles
    /\ log_files = NoFiles
    /\ InitRest
    /\ pred \in Tensors
    /\ ans \in {pred, Zeros(pred)}
    /\ weights \in [alpha : Alphas, beta : Betas]
    /\ loss_out = <<>>

\* loss = cust_loss(pred, ans, opt.alpha, opt.beta), lines 128, 134, 159, 163.
CustLoss ==
    /\ pc = "cust_loss"
    /\ LET r == cust_loss(pred, ans, weights.alpha, weights.beta)
       IN  IF r.err # ""
           THEN /\ Fail(r.err)
                /\ UNCHANGED loss_out
           ELSE /\ loss_out' = r.loss
                /\ pc' = "returned"
                /\ err' = ""
    /\ UNCHANGED <<cli, opt, training_data, validation_data, params, ops, losses,
                   model_info, start_i, epoch_i, train_loss, valid_loss,
                   train_loss_list, valid_loss_list, log_files, ckpt_files, saving,
                   saved, pred, ans, weights>>

NextLoss == CustLoss

SpecLoss == InitLoss /\ [][NextLoss]_vars

(***************************************************************************)
(* Properties.                                                             *)
(***************************************************************************)
InSaved(e) == \E i \in 1..Len(saved) : saved[i] = e

Resumed == cli.chkpt # ""

\* The checkpoint step of epoch e of this run is over.
Decided(e) ==
    /\ start_i <= e
    /\ \/ e < epoch_i
       \/ e = epoch_i /\ pc = "log"
       \/ e = epoch_i /\ pc = "error" /\ err = "PermissionError" /\ valid_loss_list # <<>>

\* The positions of train() from the first epoch on.
LoopStates == {"train_epoch", "eval_epoch", "checkpoint", "saving", "log", "done", "killed"}

InLoop == pc \in LoopStates \/ (pc = "error" /\ err \in {"ZeroDivisionError", "OSError"})

IsPrefix(a, b) == Len(a) <= Len(b) /\ SubSeq(b, 1, Len(a)) = a

RECURSIVE SumOfMeans(_)
SumOfMeans(table) ==
    IF table = <<>> THEN <<0, 1>>
    ELSE RatAdd(Rat(SumSeq(table[1]), Len(table[1])), SumOfMeans(Tail(table)))

\* C1: in save mode BEST, a checkpoint is persisted at epoch e if and only if
\* the training loss of e is the minimum of the training losses recorded so
\* far in the run, e included.
C1_BestPersistsOnlyNewMinimum ==
    (opt.save_mode = "best" /\ opt.save_model # "" /\ pc = "log") =>
        (InSaved(epoch_i) <=>
            \A i \in 1..Len(train_loss_list) : RatLE(train_loss, train_loss_list[i]))

\* C2: in save mode INTERVAL with interval N >= 1, a checkpoint is persisted at
\* epoch e if and only if e is a multiple of N and e is not 0.
C2_IntervalPersistsMultiples ==
    (opt.save_mode = "interval" /\ opt.save_model # "") =>
        /\ \A e \in start_i..epoch_i :
              Decided(e) => (InSaved(e) <=> (e % opt.save_interval = 0 /\ e # 0))
        /\ \A i \in 1..Len(saved) : Decided(saved[i])

\* A run of epochs 0, 1, 2 with interval 2: epoch 0 is passed over, epoch 2 saved.
C2_Witness ==
    /\ opt.save_mode = "interval"
    /\ opt.save_model # ""
    /\ opt.save_interval = 2
    /\ start_i = 0
    /\ pc = "done"
    /\ epoch_i = 3
    /\ saved = <<2>>

\* C3: in save mode ALL, every completed epoch has exactly one checkpoint, under
\* a file name tagged with its index and its training loss: after n epochs the
\* run has written n files and none was overwritten by a later epoch.
C3_AllPersistsEveryEpoch ==
    (opt.save_mode = "all" /\ opt.save_model # ""
       /\ pc \in {"train_epoch", "eval_epoch", "checkpoint", "log", "done"}) =>
        LET n == (epoch_i - start_i) + (IF pc = "log" THEN 1 ELSE 0)
        IN  /\ Len(saved) = n
            /\ \A i \in 1..n :
                  LET e    == start_i + i - 1
                      name == opt.save_model \o "_tr_loss_" \o ToString(e) \o "_"
                              \o FormatF(train_loss_list[i], 3, 3) \o ".chkpt"
                  IN  /\ saved[i] = e
                      /\ name \in DOMAIN ckpt_files
                      /\ ckpt_files[name].complete
                      /\ ckpt_files[name].epoch = e
            /\ Cardinality(DOMAIN ckpt_files \ {cli.chkpt}) = n

\* Three epochs, the first two with the same training loss.
C3_Witness ==
    /\ opt.save_mode = "all"
    /\ opt.save_model # ""
    /\ pc = "done"
    /\ Len(saved) = 3
    /\ train_loss_list[1] = train_loss_list[2]

\* C4: an epoch pass over B >= 1 non-empty batches returns the sum of the
\* per-batch means divided by B.
C4_EpochLossIsMeanOfBatchMeans ==
    (pc = "returned" /\ KnownModel(opt.model) /\ Len(losses) >= 1) =>
        LET result == IF ops[1] = "model.train" THEN train_loss ELSE valid_loss
            sum    == SumOfMeans(losses)
        IN  result = Rat(sum[1], sum[2] * Len(losses))

\* C5: a pass that meets a batch with no example raises EmptyBatchError, the
\* run stops at that epoch and no checkpoint of that epoch is written.
C5_EmptyBatchRaisesEmptyBatchError ==
    (pc = "error" /\ KnownModel(opt.model)
       /\ \E j \in 1..Len(losses) : losses[j] = <<>>) =>
        /\ err = "EmptyBatchError"
        /\ ~InSaved(epoch_i)
        /\ \A f \in DOMAIN ckpt_files \ {cli.chkpt} : ckpt_files[f].epoch # epoch_i

\* C6: a run resumed from a checkpoint of epoch k runs epoch k+1 first, no
\* epoch up to k and no epoch out of turn, under the configuration and from the
\* parameters of the checkpoint.
C6_ResumeStartsAtNextEpoch ==
    (Resumed /\ pc # "start") =>
        LET info == model_info[1]
            k    == info.epoch
            open == IF pc \in {"checkpoint", "saving", "log", "killed"}
                       \/ (pc = "error" /\ err = "OSError")
                    THEN 1 ELSE 0
        IN  /\ opt = [info.settings EXCEPT !.epoch = ResumeEpoch]
            /\ (pc = "train" \/ InLoop) => start_i = k + 1
            /\ pc = "train" => params = info.model
            /\ InLoop =>
                  /\ epoch_i >= k + 1
                  /\ epoch_i = (k + 1) + Len(valid_loss_list) - open
                  /\ (pc = "train_epoch" /\ train_loss_list = <<>>) => params = info.model

\* The first epoch of a resumed run, under a configuration that is not the
\* command line's.
C6_Witness ==
    /\ Resumed
    /\ pc = "checkpoint"
    /\ Len(train_loss_list) = 1
    /\ epoch_i = model_info[1].epoch + 1
    /\ opt.save_mode # cli.save_mode

\* C7: on a resumed run with logging enabled, the lines of an existing log file
\* stay in it, in place: no step truncates or re-initializes the file.
C7_ResumeNeverTruncatesLog ==
    [][(Resumed /\ opt.log # "") =>
          \A f \in DOMAIN log_files :
              f \in DOMAIN log_files' /\ IsPrefix(log_files[f], log_files'[f])]_vars

\* C8: on a non-resumed run with logging enabled, each log file is the header
\* line followed by one line per completed epoch of this run, in order.
C8_FreshRunReinitializesLogs ==
    (~Resumed /\ opt.log # "" /\ pc \in {"train_epoch", "done"}) =>
        /\ LogTrainFile(opt) \in DOMAIN log_files
        /\ LogValidFile(opt) \in DOMAIN log_files
        /\ log_files[LogTrainFile(opt)] =
              <<HeaderLine>> \o [i \in 1..epoch_i |-> LogLine(i - 1, train_loss_list[i])]
        /\ log_files[LogValidFile(opt)] =
              <<HeaderLine>> \o [i \in 1..epoch_i |-> LogLine(i - 1, valid_loss_list[i])]

\* An evaluation pass went over an example without a forward pass.
ExampleSkipped ==
    /\ ops # <<>>
    /\ ops[1] = "model.eval"
    /\ \E j \in 1..Len(losses) : losses[j] # <<>>
    /\ Count(ops, "forward") = 0

\* C9: with a model selector other than 'transformer' and 'seq2pos' the run
\* stops with an error before an optimizer step is applied and before an
\* example is passed over.
C9_UnknownModelIsFatal ==
    ~KnownModel(opt.model) =>
        /\ Count(ops, "step") = 0
        /\ ~ExampleSkipped

\* C10: when the process has stopped, by a hard stop or a failed write, no file
\* under a checkpoint name holds a partially written checkpoint.
C10_NoPartialCheckpointAfterStop ==
    pc \in {"killed", "error"} =>
        \A f \in DOMAIN ckpt_files : ckpt_files[f].complete

\* C11: when a log file cannot be opened, at the start of train() or at the
\* append of an epoch, the run does not abort: it goes on without logging.
C11_LogFailureDoesNotAbort ==
    ~(pc = "error" /\ err = "PermissionError")

\* C12: cust_loss on a trajectory of fewer than 2 frames fails with
\* DegenerateSequenceError; it never returns a loss value.
C12_ShortTrajectoryRaisesDegenerateSequenceError ==
    (pc # "cust_loss" /\ Len(pred) < 2) =>
        (pc = "error" /\ err = "DegenerateSequenceError" /\ loss_out = <<>>)

\* The variance term of a tensor weighted by beta, as a loss value with
\* rational part q.
WithVariance(q, beta, output) ==
    [q |-> q,
     c |-> RatMul(beta, Rat(-1, Numel(output))),
     rad |-> IF beta[1] = 0 THEN <<>> ELSE norm(output)]

AllFramesEqual(output) == \A n \in 1..Len(output) : output[n] = output[1]

OptimizerOps == {"zero_grad", "backward", "step"}

\* C14: the EVAL pass invokes no optimizer operation (zero_grad, backward,
\* step) and leaves the parameters, the training-loss history, the validation
\* history it is appended to, the log files and the checkpoint files as they
\* were; the parameters change in no step between the end of the TRAIN pass of
\* an epoch and the end of its torch.save, so the checkpoint of epoch e holds
\* the parameters the TRAIN pass of e left.
C14_EvalPassHasNoSideEffect ==
    [][/\ pc = "eval_epoch" =>
             /\ \A i \in 1..Len(ops') : ops'[i] \notin OptimizerOps
             /\ params' = params
             /\ train_loss_list' = train_loss_list
             /\ IsPrefix(valid_loss_list, valid_loss_list')
             /\ log_files' = log_files
             /\ ckpt_files' = ckpt_files
             /\ saved' = saved
       /\ pc \in {"checkpoint", "saving"} => params' = params
       /\ (pc = "saving" /\ pc' = "log") =>
             /\ ckpt_files'[saving[1]].model = params
             /\ ckpt_files'[saving[1]].epoch = epoch_i
      ]_vars

\* An epoch of one training and one validation example: the EVAL pass ran its
\* forward pass and loss, and the checkpoint of the epoch is on disk.
C14_Witness ==
    /\ pc = "log"
    /\ InSaved(epoch_i)
    /\ ops = <<"model.eval", "forward", "cust_loss">>
    /\ params > 0
    /\ params # ResumedParams

\* The operations of one training example, in the order of the claim.
ExampleOps == <<"zero_grad", "forward", "cust_loss", "backward", "step">>

\* The examples a pass went through: those of the batches before the first
\* empty one, at which the pass stops.
RECURSIVE ConsumedExamples(_)
ConsumedExamples(table) ==
    IF table = <<>> \/ table[1] = <<>> THEN 0
    ELSE Len(table[1]) + ConsumedExamples(Tail(table))

\* C15: in a TRAIN pass with a recognized model selector every example goes
\* through clear gradients, forward, loss, backward, one optimizer step, in
\* this order and one example at a time; the number of optimizer steps (and of
\* parameter updates) is the number of examples consumed.
C15_TrainPassStepsOncePerExample ==
    (KnownModel(opt.model) /\ ops # <<>> /\ ops[1] = "model.train") =>
        LET n == ConsumedExamples(losses)
        IN  /\ Len(ops) = 1 + n * Len(ExampleOps)
            /\ \A k \in 0..(n - 1) :
                  SubSeq(ops, 2 + k * Len(ExampleOps), 1 + (k + 1) * Len(ExampleOps))
                      = ExampleOps
            /\ Count(ops, "step") = n
            /\ params = n

\* A TRAIN pass over two batches, three examples or more, that returned.
C15_Witness ==
    /\ KnownModel(opt.model)
    /\ pc = "returned"
    /\ ops[1] = "model.train"
    /\ Len(losses) = 2
    /\ ConsumedExamples(losses) >= 3
    /\ Count(ops, "step") >= 3

\* The log files after the step hold what they held, or the header line alone.
OnlyHeadersWritten ==
    \A f \in DOMAIN log_files' :
        \/ log_files'[f] = <<HeaderLine>>
        \/ f \in DOMAIN log_files /\ log_files'[f] = log_files[f]

\* The steps of train(start_i, opt.epoch) that do not fail: the epochs
\* start_i .. opt.epoch - 1 run in increasing order, once each; in an epoch the
\* TRAIN pass ends before the EVAL pass starts, and the checkpoint decision and
\* the log append end before the next epoch starts; the loop ends after epoch
\* opt.epoch - 1; with start_i >= opt.epoch no epoch runs and no checkpoint is
\* written, and no line is written to a log (strict) or no line but the header
\* lines of the log initialization (not strict).
EpochOrder(strict) ==
    /\ (pc = "train" /\ pc' # "error") =>
          /\ epoch_i' = start_i
          /\ train_loss_list' = <<>>
          /\ pc' = IF start_i < opt.epoch THEN "train_epoch" ELSE "done"
          /\ start_i >= opt.epoch =>
                /\ ckpt_files' = ckpt_files
                /\ saved' = <<>>
                /\ IF strict THEN log_files' = log_files ELSE OnlyHeadersWritten
    /\ pc = "train_epoch" =>
          /\ epoch_i \in start_i..(opt.epoch - 1)
          /\ Len(train_loss_list) = epoch_i - start_i
          /\ Len(valid_loss_list) = epoch_i - start_i
          /\ epoch_i' = epoch_i
          /\ pc' \in {"eval_epoch", "error"}
    /\ pc = "eval_epoch" =>
          /\ Len(train_loss_list) = epoch_i - start_i + 1
          /\ Len(valid_loss_list) = epoch_i - start_i
          /\ epoch_i' = epoch_i
          /\ pc' \in {"checkpoint", "error"}
    /\ pc = "checkpoint" =>
          /\ Len(valid_loss_list) = epoch_i - start_i + 1
          /\ epoch_i' = epoch_i
          /\ pc' \in {"saving", "log"}
    /\ pc = "saving" =>
          /\ epoch_i' = epoch_i
          /\ pc' \in {"log", "error", "killed"}
    /\ (pc = "log" /\ pc' # "error") =>
          /\ opt.log # "" =>
                /\ log_files'[LogTrainFile(opt)][Len(log_files'[LogTrainFile(opt)])]
                       = LogLine(epoch_i, train_loss)
                /\ log_files'[LogValidFile(opt)][Len(log_files'[LogValidFile(opt)])]
                       = LogLine(epoch_i, valid_loss)
          /\ epoch_i' = epoch_i + 1
          /\ pc' = IF epoch_i + 1 < opt.epoch THEN "train_epoch" ELSE "done"
    /\ pc' = "done" =>
          epoch_i' = IF start_i < opt.epoch THEN opt.epoch ELSE start_i
    /\ pc \notin {"done", "error", "killed"}

\* C16 as stated: with start_i >= opt.epoch train() writes no log line at all.
C16_EpochsRunInOrderNoLineWithoutEpoch == [][EpochOrder(TRUE)]_vars

\* C16, amended: with start_i >= opt.epoch train() writes no checkpoint and no
\* log line of an epoch; the log initialization may still write the header
\* line of each log file.
C16_EpochsRunInOrder == [][EpochOrder(FALSE)]_vars

\* A fresh run of three epochs with logging that came to its end.
C16_Witness ==
    /\ pc = "done"
    /\ start_i = 0
    /\ epoch_i = 3
    /\ Len(train_loss_list) = 3
    /\ Len(valid_loss_list) = 3
    /\ opt.log # ""
    /\ Len(log_files[LogTrainFile(opt)]) >= 4

\* C17: every checkpoint train() persists carries the index of the epoch that
\* just completed its TRAIN and EVAL passes, an index in start_i .. opt.epoch - 1,
\* the parameters as they are at that moment and the whole configuration of
\* the run; no checkpoint carries the index of an epoch whose passes are not
\* over, and within a run the indexes of the checkpoints written one after
\* the other are strictly increasing.
C17_CheckpointCarriesCompletedEpoch ==
    [][/\ (pc = "saving" /\ pc' = "log") =>
             LET c == ckpt_files'[saving[1]]
             IN  /\ c.complete
                 /\ c.epoch = epoch_i
                 /\ c.model = params
                 /\ c.settings = opt
                 /\ epoch_i \in start_i..(opt.epoch - 1)
                 /\ Len(train_loss_list) = epoch_i - start_i + 1
                 /\ Len(valid_loss_list) = epoch_i - start_i + 1
                 /\ saved' = saved \o <<epoch_i>>
                 /\ saved # <<>> => saved[Len(saved)] < epoch_i
       /\ (pc = "checkpoint" /\ pc' = "saving") =>
             /\ ckpt_files'[saving'[1]].epoch = epoch_i
             /\ Len(valid_loss_list) = epoch_i - start_i + 1
       /\ ckpt_files' # ckpt_files => pc \in {"checkpoint", "saving"}
       /\ saved' # saved => pc = "saving"
      ]_vars

\* Save mode 'all', epochs 0 and 1 of a fresh run with one training example:
\* two checkpoints on disk, the later one with the parameters after two updates.
C17_Witness ==
    /\ pc = "log"
    /\ saved = <<0, 1>>
    /\ params = 2
    /\ \E f \in DOMAIN ckpt_files :
          ckpt_files[f] = CheckpointOf(2, opt, 1)
    /\ \E f \in DOMAIN ckpt_files : ckpt_files[f].epoch = 0 /\ ckpt_files[f].model = 1

\* C18: the training-loss history starts empty in every call of train(), so in
\* save mode BEST the first epoch of a run, a resumed run included, always
\* overwrites the checkpoint of the fixed name; the history is append-only and
\* after n completed TRAIN passes holds their n losses in epoch order.
C18_FirstEpochOverwritesBest ==
    [][/\ (pc = "train" /\ pc' # "error") => train_loss_list' = <<>>
       /\ pc # "train" => IsPrefix(train_loss_list, train_loss_list')
       /\ (pc = "train_epoch" /\ pc' = "eval_epoch") =>
             /\ train_loss_list' = train_loss_list \o <<train_loss'>>
             /\ Len(train_loss_list') = epoch_i - start_i + 1
       /\ train_loss_list' # train_loss_list => pc = "train_epoch"
       /\ (pc = "checkpoint" /\ epoch_i = start_i
              /\ opt.save_mode = "best" /\ opt.save_model # "") =>
             /\ pc' = "saving"
             /\ saving' = <<BestName(opt)>>
             /\ ckpt_files'[BestName(opt)].epoch = epoch_i
       /\ (pc = "saving" /\ pc' = "log" /\ epoch_i = start_i
              /\ opt.save_mode = "best") =>
             ckpt_files'[BestName(opt)] = CheckpointOf(params, opt, epoch_i)
      ]_vars

\* A resumed run in mode BEST after its first epoch: the checkpoint it was
\* resumed from is replaced by the one of that epoch.
C18_Witness ==
    /\ Resumed
    /\ opt.save_mode = "best"
    /\ pc = "log"
    /\ epoch_i = start_i
    /\ Len(train_loss_list) = 1
    /\ saved = <<epoch_i>>
    /\ BestName(opt) = cli.chkpt
    /\ ckpt_files[cli.chkpt].epoch = model_info[1].epoch + 1

\* The steps of a resumed run: main sets opt.epoch to 601 whatever epoch count
\* the command line or the checkpoint holds, and train() runs the epochs
\* k+1 .. 600 for a checkpoint of epoch k; for k >= 600 no epoch runs, no
\* checkpoint is written, and no line is written to a log (strict) or no line
\* but the header lines of the log initialization (not strict).
ResumeBound(strict) ==
    Resumed =>
        /\ (pc = "start" /\ pc' = "train") =>
              /\ opt'.epoch = ResumeEpoch
              /\ start_i' = ckpt_files[cli.chkpt].epoch + 1
        /\ (pc = "train" /\ pc' # "error") =>
              LET k == model_info[1].epoch
              IN  /\ epoch_i' = k + 1
                  /\ pc' = IF k < ResumeEpoch - 1 THEN "train_epoch" ELSE "done"
                  /\ k >= ResumeEpoch - 1 =>
                        /\ ckpt_files' = ckpt_files
                        /\ saved' = <<>>
                        /\ IF strict THEN log_files' = log_files ELSE OnlyHeadersWritten
        /\ pc' = "train_epoch" =>
              epoch_i' \in (model_info'[1].epoch + 1)..(ResumeEpoch - 1)
        /\ (pc = "log" /\ pc' # "error") =>
              /\ epoch_i' = epoch_i + 1
              /\ pc' = "done" <=> epoch_i = ResumeEpoch - 1
        /\ pc' = "done" =>
              epoch_i' = IF model_info'[1].epoch < ResumeEpoch - 1
                         THEN ResumeEpoch ELSE model_info'[1].epoch + 1

\* C19 as stated: resumed from a checkpoint of epoch k >= 600, the run writes
\* no log line at all.
C19_ResumeRunsTo600NoLineWithoutEpoch == [][ResumeBound(TRUE)]_vars

\* C19, amended: resumed from a checkpoint of epoch k >= 600, the run writes no
\* checkpoint and no log line of an epoch; the log initialization may still
\* write the header line of each log file.
C19_ResumeRunsTo600 == [][ResumeBound(FALSE)]_vars

\* Resumed from epoch 598 of a run whose checkpoint holds another epoch count:
\* epochs 599 and 600 ran and the run ended.
C19_Witness ==
    /\ Resumed
    /\ pc = "done"
    /\ model_info[1].epoch = ResumeEpoch - 3
    /\ model_info[1].settings.epoch > ResumeEpoch
    /\ cli.epoch = DefaultEpoch
    /\ epoch_i = ResumeEpoch
    /\ Len(train_loss_list) = 2

\* The checkpoint files the run found when it started.
FilesFound == IF Resumed THEN DOMAIN ckpt_files \cap {cli.chkpt} ELSE {}

\* C20: with a save path configured and a save mode that is none of 'all',
\* 'best', 'interval', train() runs its epochs as with any other mode and
\* appends their log lines, writes no checkpoint at any epoch and reports no
\* error of the mode; in every mode at most one checkpoint is written per epoch.
C20_UnknownSaveModeWritesNothing ==
    /\ (opt.save_model # "" /\ opt.save_mode \notin {"all", "best", "interval"}) =>
          /\ saved = <<>>
          /\ saving = <<>>
          /\ pc \notin {"saving", "killed"}
          /\ err # "OSError"
          /\ DOMAIN ckpt_files = FilesFound
          /\ pc = "done" =>
                /\ Len(train_loss_list) = (IF start_i < opt.epoch
                                           THEN opt.epoch - start_i ELSE 0)
                /\ (opt.log # "" /\ train_loss_list # <<>>) =>
                      /\ Len(log_files[LogTrainFile(opt)]) > Len(train_loss_list)
                      /\ log_files[LogTrainFile(opt)][Len(log_files[LogTrainFile(opt)])]
                             = LogLine(epoch_i - 1, train_loss)
    /\ \A i, j \in 1..Len(saved) : i < j => saved[i] < saved[j]
    /\ saving # <<>> => Len(saving) = 1 /\ ~InSaved(epoch_i)

\* Save mode 'last' with the default save path: three epochs ran and were
\* logged, and no checkpoint file exists.
C20_Witness ==
    /\ opt.save_mode = "last"
    /\ opt.save_model # ""
    /\ opt.log # ""
    /\ pc = "done"
    /\ Len(train_loss_list) = 3
    /\ Len(log_files[LogTrainFile(opt)]) >= 4
    /\ ckpt_files = NoFiles

====
